---- MODULE Spec2Model ----
(***************************************************************************)
(* Model of the slide-deck rendering pipeline of preza-backend:           *)
(*   services/pptx_service.py      PPTXService (layout selector, asset    *)
(*                                 resolver, slide renderer, assembler)   *)
(*   services/presentation_service.py  the store operations               *)
(*   app/api/endpoints.py          build_presentation_from_json and its   *)
(*                                 asset resolver                         *)
(*                                                                         *)
(* Text is held as sequences of one-character strings.  A multi-line      *)
(* content string is held as the sequence of its '\n'-separated segments  *)
(* (what str.split('\n') returns), so the empty string is <<"">>, written *)
(* << <<>> >>, and None is a separate tagged value.                       *)
(***************************************************************************)
EXTENDS Integers, Sequences, FiniteSets, TLC

VARIABLES
    db,     \* the relational store: the presentation row and its slide rows
    ex,     \* the call frame of one PPTXService.export_to_pptx call
    fs,     \* the filesystem: scratch directories and files that exist
    sty,    \* one call of PPTXService._get_slide_style
    rnd,    \* one call of PPTXService._create_content_slide
    js,     \* the JSON document path: enrichment, build_presentation_from_json
    ast     \* one call of an asset resolver

vars == <<db, ex, fs, sty, rnd, js, ast>>

\* A variable of a component that takes no part in a specification.
Off == [pc |-> "off"]

-----------------------------------------------------------------------------
(* Python helpers *)

Max(a, b) == IF a >= b THEN a ELSE b

Min(a, b) == IF a <= b THEN a ELSE b

\* the characters str.strip() removes, among those the model uses
Whitespace == {" ", "\n"}

\* str.strip() on the leading side: drop leading whitespace.
RECURSIVE LStrip(_)
LStrip(s) ==
    IF s = <<>> THEN <<>>
    ELSE IF Head(s) \in Whitespace THEN LStrip(Tail(s)) ELSE s

\* str.strip() on the trailing side: drop trailing whitespace.
RECURSIVE RStrip(_)
RStrip(s) ==
    IF s = <<>> THEN <<>>
    ELSE IF s[Len(s)] \in Whitespace THEN RStrip(SubSeq(s, 1, Len(s) - 1)) ELSE s

\* str.strip()
Strip(s) == RStrip(LStrip(s))

\* line.strip().startswith('-')
IsBulletLine(line) == LET t == Strip(line) IN t # <<>> /\ Head(t) = "-"

\* line.strip()[1:].strip() : the text of a bullet line, dash removed
BulletText(line) == Strip(Tail(Strip(line)))

\* s[:n]
Take(s, n) == SubSeq(s, 1, Min(n, Len(s)))

-----------------------------------------------------------------------------
(* content strings *)

NoneText == [none |-> TRUE, lines |-> <<>>]

Text(ls) == [none |-> FALSE, lines |-> ls]

\* the empty string: one empty segment
EmptyText == Text(<< <<>> >>)

\* Python truthiness of an Optional[str]: None and "" are falsy
Truthy(c) == ~c.none /\ c.lines # << <<>> >>

\* content.split('\n')
Split(c) == c.lines

\* '\n'.join(lines): joining no lines gives the empty string
Join(ls) == IF ls = <<>> THEN EmptyText ELSE Text(ls)

-----------------------------------------------------------------------------
(* Layout selector: PPTXService._get_slide_style *)

\* presentation_service.py: layout_types, and the order of `styles`
LayoutKinds ==
    <<"image_left", "image_right", "text_only", "split_content", "image_top",
      "grid_layout">>

LayoutKindSet == {LayoutKinds[i] : i \in 1..Len(LayoutKinds)}

\* the `styles` list of _get_slide_style (the colours, which every entry
\* takes from the one theme of the document, are left out)
Styles ==
    << [layout |-> "image_left",    bullet_type |-> "numbers", text_alignment |-> "left"],
       [layout |-> "image_right",   bullet_type |-> "dots",    text_alignment |-> "left"],
       [layout |-> "text_only",     bullet_type |-> "numbers", text_alignment |-> "center"],
       [layout |-> "split_content", bullet_type |-> "dots",    text_alignment |-> "left"],
       [layout |-> "image_top",     bullet_type |-> "numbers", text_alignment |-> "center"],
       [layout |-> "grid_layout",   bullet_type |-> "dots",    text_alignment |-> "left"] >>

\* the result of a call that raised instead of returning a style
RaisedStyle(what) ==
    [layout |-> what, bullet_type |-> "raised", text_alignment |-> "raised"]

\* Optional[List[str]]: the JSON column layout_order
NoneOrder == [none |-> TRUE, items |-> <<>>]

Order(items) == [none |-> FALSE, items |-> items]

\* Python truthiness of layout_order: None and [] are falsy
OrderTruthy(lo) == ~lo.none /\ lo.items # <<>>

\* styles[max(0, content_slide_index) % len(styles)]
FallbackStyle(idx) == Styles[(Max(0, idx) % Len(Styles)) + 1]

\* the style whose layout is `name`, or the fallback when no style matches
StyleNamed(name, idx) ==
    LET hit == {i \in 1..Len(Styles) : Styles[i].layout = name}
    IN IF hit # {}
       THEN Styles[CHOOSE i \in hit : \A j \in hit : i <= j]
       ELSE FallbackStyle(idx)

\* a variant that tests `layout_order is not None` where the code tests
\* truthiness: an empty list then divides by len(layout_order) = 0
GetSlideStyleIsNotNone(slide_number, lo) ==
    LET idx == slide_number - 2
    IN IF ~lo.none /\ idx >= 0
       THEN IF lo.items = <<>>
            THEN RaisedStyle("ZeroDivisionError")
            ELSE StyleNamed(lo.items[(idx % Len(lo.items)) + 1], idx)
       ELSE FallbackStyle(idx)

\* _get_slide_style(slide_number, layout_order)
GetSlideStyle(slide_number, lo) ==
    LET idx == slide_number - 2
    IN IF OrderTruthy(lo) /\ idx >= 0
       THEN StyleNamed(lo.items[(idx % Len(lo.items)) + 1], idx)
       ELSE FallbackStyle(idx)

\* bounds of the selector's inputs
MaxStyleNumber == 10

NegStyleNumbers == 3

StyleNumbers == (0 - NegStyleNumbers)..MaxStyleNumber

\* two of the permutations random.shuffle can store
PermA ==
    <<"text_only", "grid_layout", "image_left", "image_top", "split_content",
      "image_right">>

PermB ==
    <<"grid_layout", "image_top", "split_content", "text_only", "image_right",
      "image_left">>

\* list-valued or absent layout_order values: None, empty, permutations,
\* shorter and longer than six, and one holding a name that is no layout kind
StyleOrders ==
    { NoneOrder, Order(<<>>), Order(LayoutKinds), Order(PermA), Order(PermB),
      Order(<<"image_top", "text_only">>),
      Order(PermA \o <<"split_content">>),
      Order(<<"text_only", "title-content", "grid_layout">>) }

NoStyle == [layout |-> "none", bullet_type |-> "none", text_alignment |-> "none"]

StyleInit ==
    /\ sty \in [pc : {"call"}, slide_number : StyleNumbers,
                layout_order : StyleOrders, result : {NoStyle}]
    /\ db = Off /\ ex = Off /\ fs = Off /\ rnd = Off /\ js = Off /\ ast = Off

StyleCall ==
    /\ sty.pc = "call"
    /\ sty' = [sty EXCEPT !.pc = "done",
                          !.result = GetSlideStyle(sty.slide_number, sty.layout_order)]
    /\ UNCHANGED <<db, ex, fs, rnd, js, ast>>

StyleNext == StyleCall

SpecStyle == StyleInit /\ [][StyleNext]_vars

\* C3: _get_slide_style is total: for every integer slide_number and every
\* list-valued or absent layout_order it returns, without raising, a style
\* whose layout is one of the six layout kinds.
C3_SelectorTotal ==
    sty.pc = "done" => sty.result.layout \in LayoutKindSet

\* the selector has answered a call that looked up layout_order and found
\* there a name that is no layout kind, and one with a slide_number below 2
C3_Witness ==
    /\ sty.pc = "done"
    /\ sty.slide_number >= 2
    /\ OrderTruthy(sty.layout_order)
    /\ sty.layout_order.items[((sty.slide_number - 2) % Len(sty.layout_order.items)) + 1]
           \notin LayoutKindSet
    /\ sty.result.layout \in LayoutKindSet

-----------------------------------------------------------------------------
(* Slide renderer: the visual primitives a slide is made of.  A slide is   *)
(* the sequence of primitives in the order the code emits them; a text box *)
(* is followed by the paragraphs written into it.  Lengths are hundredths  *)
(* of an inch.                                                             *)

Prim(kind, text, aux, left, top, width) ==
    [kind |-> kind, text |-> text, aux |-> aux, left |-> left, top |-> top,
     width |-> width]

\* _clean_markdown: the replace() calls remove every '*' and '#', then strip()
IsNotMarkup(ch) == ch \notin {"*", "#"}

CleanMarkdown(t) == Strip(SelectSeq(t, IsNotMarkup))

\* the characters of a multi-line string, segments joined by '\n'
RECURSIVE Chars(_)
Chars(ls) ==
    IF ls = <<>> THEN <<>>
    ELSE IF Len(ls) = 1 THEN ls[1]
    ELSE ls[1] \o <<"\n">> \o Chars(Tail(ls))

Digit(n) == <<"0", "1", "2", "3", "4", "5", "6", "7", "8", "9">>[n + 1]

\* f"{bullet_count:02d}"
TwoDigits(n) ==
    IF n < 10 THEN <<"0", Digit(n)>> ELSE <<Digit((n \div 10) % 10), Digit(n % 10)>>

\* a variant of the filter that lets every line through
FilterContentKeepAll(content, layout_type) == content

\* _filter_content_for_layout(content, layout_type)
FilterContentForLayout(content, layout_type) ==
    IF ~Truthy(content) THEN content
    ELSE IF layout_type \in {"image_left", "image_right", "image_top"}
         THEN Join(SelectSeq(Split(content), IsBulletLine))
         ELSE content

\* one bullet paragraph of _process_bullet_content: the prefix runs and the text
BulletPara(count, line, style) ==
    Prim("bullet", BulletText(line),
         IF style.bullet_type = "numbers" THEN TwoDigits(count) \o <<".">> ELSE <<"dot">>,
         0, 0, 0)

\* the loop of _process_bullet_content over the lines, bullet_count carried
RECURSIVE ProcessLines(_, _, _)
ProcessLines(lines, count, style) ==
    IF lines = <<>> THEN <<>>
    ELSE LET line == Head(lines) IN
         IF Strip(line) = <<>> THEN ProcessLines(Tail(lines), count, style)
         ELSE IF IsBulletLine(line)
              THEN <<BulletPara(count + 1, line, style)>>
                       \o ProcessLines(Tail(lines), count + 1, style)
              ELSE <<Prim("para", CleanMarkdown(line), <<>>, 0, 0, 0)>>
                       \o ProcessLines(Tail(lines), count, style)

\* _process_bullet_content(content_frame, content_text, slide_style)
ProcessBulletContent(content, style) == ProcessLines(Split(content), 0, style)

\* accent line position of _add_slide_content (the half width rounded down)
AccentLeft(style, left, width) ==
    IF style.text_alignment = "left" THEN left ELSE left + (width \div 2) - 60

\* _add_slide_content(slide, slide_data, slide_style, text_left, text_width)
AddSlideContent(title, content, style, left, width) ==
    << Prim("title", title, <<>>, left, 100, width),
       Prim("accent_line", <<>>, <<>>, AccentLeft(style, left, width), 260, 120) >>
    \o IF Truthy(content)
       THEN <<Prim("content_box", <<>>, <<>>, left, 300, width)>>
                \o ProcessBulletContent(content, style)
       ELSE <<>>

\* the image block of _create_image_left_layout / _create_image_right_layout:
\* container, picture and two circles; add_picture raising on a file that
\* does not decode leaves the container and skips the rest (the try/except)
ImageBlock(img, left, circle_left) ==
    IF img = "ok"
    THEN << Prim("container", <<>>, <<>>, left, 140, 550),
            Prim("picture", <<>>, <<>>, left + 15, 155, 520),
            Prim("circle", <<>>, <<"circle1">>, circle_left, 135, 25),
            Prim("circle", <<>>, <<"circle2">>, left - 5, 525, 20) >>
    ELSE << Prim("container", <<>>, <<>>, left, 140, 550) >>

\* _create_image_left_layout
CreateImageLeftLayout(title, content, img, style) ==
    LET filtered == FilterContentForLayout(content, "image_left")
    IN IF img # "none"
       THEN ImageBlock(img, 40, 565) \o AddSlideContent(title, filtered, style, 670, 610)
       ELSE AddSlideContent(title, filtered, style, 100, 1133)

\* _create_image_right_layout
CreateImageRightLayout(title, content, img, style) ==
    LET filtered == FilterContentForLayout(content, "image_right")
    IN IF img # "none"
       THEN ImageBlock(img, 760, 1265) \o AddSlideContent(title, filtered, style, 100, 610)
       ELSE AddSlideContent(title, filtered, style, 100, 1133)

\* a variant of the text-only layout that filters its content the way the
\* three image layouts do
CreateTextOnlyLayoutFiltered(title, content, style) ==
    << Prim("circle", <<>>, <<"accent">>, 100, 100, 30),
       Prim("circle", <<>>, <<"circle2">>, 1150, 600, 40) >>
    \o AddSlideContent(title,
                       IF Truthy(content)
                       THEN Join(SelectSeq(Split(content), IsBulletLine))
                       ELSE content,
                       style, 200, 933)

\* _create_text_only_layout
CreateTextOnlyLayout(title, content, style) ==
    << Prim("circle", <<>>, <<"accent">>, 100, 100, 30),
       Prim("circle", <<>>, <<"circle2">>, 1150, 600, 40) >>
    \o AddSlideContent(title, content, style, 200, 933)

\* the left column of _create_split_content_layout: at most four bullets
SplitBullets(content) ==
    LET bullet_lines == Take(SelectSeq(Split(content), IsBulletLine), 4)
    IN [i \in 1..Len(bullet_lines) |->
           Prim("bullet", BulletText(bullet_lines[i]), <<"dot">>, 0, 0, 0)]

IsInsightLine(line) == Strip(line) # <<>> /\ ~IsBulletLine(line)

\* a variant of desc_text that takes the first non-bullet line
KeyTakeawaysFirst(content) ==
    IF Truthy(content)
    THEN LET non_bullet_lines == SelectSeq(Split(content), IsInsightLine)
         IN IF non_bullet_lines # <<>>
            THEN Strip(non_bullet_lines[1])
            ELSE <<"fallback: strategic conclusions">>
    ELSE <<"fallback: main conclusions">>

\* desc_text of _create_split_content_layout
KeyTakeaways(content) ==
    IF Truthy(content)
    THEN LET non_bullet_lines == SelectSeq(Split(content), IsInsightLine)
         IN IF non_bullet_lines # <<>>
            THEN Strip(non_bullet_lines[Len(non_bullet_lines)])
            ELSE <<"fallback: strategic conclusions">>
    ELSE <<"fallback: main conclusions">>

\* _create_split_content_layout
CreateSplitContentLayout(title, content, img, style) ==
    << Prim("title", title, <<>>, 50, 50, 1233),
       Prim("accent_line", <<>>, <<>>, 600, 130, 133) >>
    \o IF img # "none"
       THEN (IF Truthy(content)
             THEN <<Prim("content_box", <<>>, <<>>, 30, 200, 380)>> \o SplitBullets(content)
             ELSE <<>>)
            \o <<Prim("container", <<>>, <<>>, 450, 200, 433)>>
            \o (IF img = "ok" THEN <<Prim("picture", <<>>, <<>>, 465, 215, 403)>> ELSE <<>>)
            \o << Prim("panel", <<>>, <<>>, 920, 200, 360),
                  Prim("panel_heading", <<"key takeaways">>, <<>>, 0, 0, 0),
                  Prim("panel_text", KeyTakeaways(content), <<>>, 0, 0, 0),
                  Prim("panel_dots", <<>>, <<"accent">>, 0, 0, 0) >>
       ELSE AddSlideContent(title, content, style, 100, 1133)

\* _create_image_top_layout: PIL opens the file before add_picture, so a file
\* that does not decode adds nothing, and the text keeps the below-image place
CreateImageTopLayout(title, content, img, style) ==
    LET filtered == FilterContentForLayout(content, "image_top")
        top == IF img # "none" THEN 340 ELSE 100
    IN (IF img = "ok" THEN <<Prim("picture", <<>>, <<>>, 0, 0, 1333)>> ELSE <<>>)
       \o << Prim("title", title, <<>>, 100, top, 1133),
             Prim("accent_line", <<>>, <<>>,
                  IF style.text_alignment = "left" THEN 100 ELSE 600, top + 90, 120) >>
       \o IF Truthy(filtered)
          THEN <<Prim("content_box", <<>>, <<>>, 100, top + 120, 1133)>>
                   \o ProcessBulletContent(filtered, style)
          ELSE <<>>

\* `positions` of _create_grid_layout
GridPositions == << <<100, 230>>, <<730, 230>>, <<100, 480>>, <<730, 480>> >>

\* a variant of the boxes that gives one box to every bullet line, the
\* fifth and later ones placed over the fourth quadrant
GridBoxesUncut(content) ==
    LET lines == SelectSeq(Split(content), IsBulletLine)
        Cell(i) == << Prim("box", BulletText(lines[i]), <<>>,
                           GridPositions[Min(i, 4)][1], GridPositions[Min(i, 4)][2], 550),
                      Prim("badge", <<Digit(i)>>, <<>>,
                           GridPositions[Min(i, 4)][1] + 30,
                           GridPositions[Min(i, 4)][2] + 30, 50) >>
        Cells[n \in 0..Len(lines)] == IF n = 0 THEN <<>> ELSE Cells[n - 1] \o Cell(n)
    IN Cells[Len(lines)]

\* the boxes of _create_grid_layout: lines[:4], one box and one badge each
GridBoxes(content) ==
    LET lines == Take(SelectSeq(Split(content), IsBulletLine), 4)
        Cell(i) == << Prim("box", BulletText(lines[i]), <<>>,
                           GridPositions[i][1], GridPositions[i][2], 550),
                      Prim("badge", <<Digit(i)>>, <<>>,
                           GridPositions[i][1] + 30, GridPositions[i][2] + 30, 50) >>
    IN IF Len(lines) = 0 THEN <<>>
       ELSE IF Len(lines) = 1 THEN Cell(1)
       ELSE IF Len(lines) = 2 THEN Cell(1) \o Cell(2)
       ELSE IF Len(lines) = 3 THEN Cell(1) \o Cell(2) \o Cell(3)
       ELSE Cell(1) \o Cell(2) \o Cell(3) \o Cell(4)

\* _create_grid_layout (image_path is not read)
CreateGridLayout(title, content, img, style) ==
    << Prim("title", title, <<>>, 100, 50, 1133),
       Prim("accent_line", <<>>, <<>>, 550, 160, 233) >>
    \o IF Truthy(content) THEN GridBoxes(content) ELSE <<>>

\* _create_content_slide: the dispatch on slide_style["layout"]
CreateContentSlide(title, content, img, style) ==
    CASE style.layout = "image_left"    -> CreateImageLeftLayout(title, content, img, style)
      [] style.layout = "image_right"   -> CreateImageRightLayout(title, content, img, style)
      [] style.layout = "text_only"     -> CreateTextOnlyLayout(title, content, style)
      [] style.layout = "split_content" -> CreateSplitContentLayout(title, content, img, style)
      [] style.layout = "image_top"     -> CreateImageTopLayout(title, content, img, style)
      [] style.layout = "grid_layout"   -> CreateGridLayout(title, content, img, style)
      [] OTHER                          -> CreateImageLeftLayout(title, content, img, style)

\* _create_title_slide
CreateTitleSlide(title, content) ==
    << Prim("title", title, <<>>, 100, 200, 1133) >>
    \o IF Truthy(content)
       THEN <<Prim("subtitle", CleanMarkdown(Chars(Split(content))), <<>>, 200, 450, 933)>>
       ELSE <<>>

-----------------------------------------------------------------------------
(* One call of _create_content_slide on every bounded slide content *)

\* the most lines a content has
MaxLines == 5

\* lines of a content: blank, two bullet lines (one indented, with a space
\* after the dash), a plain line and a plain line that carries markup
LineValues ==
    { <<" ">>, <<"-", "a">>, <<" ", "-", " ", "b">>, <<"c">>, <<"#", "d">> }

RenderContents ==
    {NoneText, EmptyText}
    \cup {Text(ls) : ls \in UNION {[1..n -> LineValues] : n \in 1..MaxLines}}

\* image_path as the renderer sees it: None or no such file; a file that
\* embeds; a file that exists and does not decode
ImageStates == {"none", "ok", "bad"}

StyleSet == {Styles[i] : i \in 1..Len(Styles)}

SlideTitle == <<"T">>

RenderInit ==
    /\ rnd \in [pc : {"call"}, title : {SlideTitle}, content : RenderContents,
                style : StyleSet, img : ImageStates, out : {<<>>}]
    /\ db = Off /\ ex = Off /\ fs = Off /\ sty = Off /\ js = Off /\ ast = Off

RenderCall ==
    /\ rnd.pc = "call"
    /\ rnd' = [rnd EXCEPT !.pc = "done",
                          !.out = CreateContentSlide(rnd.title, rnd.content, rnd.img, rnd.style)]
    /\ UNCHANGED <<db, ex, fs, sty, js, ast>>

RenderNext == RenderCall

SpecRender == RenderInit /\ [][RenderNext]_vars

\* what the claims say of a content
IsParagraph(p) == p.kind \in {"bullet", "para"}

Paragraphs(out) == SelectSeq(out, IsParagraph)

IsPlainPara(p) == p.kind = "para"

IsPanelText(p) == p.kind = "panel_text"

BulletLinesOf(content) ==
    IF content.none THEN <<>> ELSE SelectSeq(content.lines, IsBulletLine)

InsightLinesOf(content) ==
    IF content.none THEN <<>> ELSE SelectSeq(content.lines, IsInsightLine)

BulletOnlyLayouts == {"image_left", "image_right", "image_top"}

\* C4: on image_left, image_right and image_top, a content that has at least
\* one bullet line is rendered as exactly its bullet lines, each one as a
\* bullet paragraph, in their original order: no non-bullet line is rendered.
C4_BulletOnlyFiltering ==
    (/\ rnd.pc = "done"
     /\ rnd.style.layout \in BulletOnlyLayouts
     /\ BulletLinesOf(rnd.content) # <<>>)
    => LET bl == BulletLinesOf(rnd.content)
           ps == Paragraphs(rnd.out)
       IN /\ Len(ps) = Len(bl)
          /\ \A i \in 1..Len(bl) :
                ps[i].kind = "bullet" /\ ps[i].text = BulletText(bl[i])
          /\ \A i \in 1..Len(rnd.out) : rnd.out[i].kind # "panel_text"

\* an image_top slide with a resolved image was rendered whose content has
\* two different bullet lines and a non-bullet line between them
C4_Witness ==
    /\ rnd.pc = "done"
    /\ rnd.style.layout = "image_top"
    /\ rnd.img = "ok"
    /\ ~rnd.content.none
    /\ Len(rnd.content.lines) = 3
    /\ rnd.content.lines[1] = <<" ", "-", " ", "b">>
    /\ rnd.content.lines[2] = <<"c">>
    /\ rnd.content.lines[3] = <<"-", "a">>
    /\ Len(Paragraphs(rnd.out)) = 2

\* a non-bullet line is shown when some paragraph or the takeaways panel
\* carries its text
Shown(line, out) ==
    \E i \in 1..Len(out) :
        /\ out[i].kind \in {"para", "panel_text"}
        /\ out[i].text \in {CleanMarkdown(line), Strip(line)}

KindOf(out, kind) == SelectSeq(out, LAMBDA p : p.kind = kind)

ImageLayouts == {"image_left", "image_right", "image_top", "split_content"}

\* C11: a slide whose image file was resolved but does not embed (adding
\* the picture raises) is rendered exactly as its no-image variant: text at
\* the full-width position, no container and no circle left from the
\* attempt.
C11_EmbedFailureDegrades ==
    (rnd.pc = "done" /\ rnd.img = "bad")
    => /\ rnd.out = CreateContentSlide(rnd.title, rnd.content, "none", rnd.style)
       /\ KindOf(rnd.out, "container") = <<>>
       /\ KindOf(rnd.out, "circle")
            = KindOf(CreateContentSlide(rnd.title, rnd.content, "none", rnd.style), "circle")

\* C12: an image-bearing layout rendered without a resolved image shows
\* what text_only shows of the same slide: the title once, one accent
\* line, and all the paragraphs of the content, at full width.
C12_NoImageIsTextOnly ==
    (rnd.pc = "done" /\ rnd.img = "none" /\ rnd.style.layout \in ImageLayouts)
    => /\ Len(KindOf(rnd.out, "title")) = 1
       /\ Len(KindOf(rnd.out, "accent_line")) = 1
       /\ Paragraphs(rnd.out)
            = Paragraphs(CreateTextOnlyLayout(rnd.title, rnd.content, rnd.style))
       /\ \A i \in 1..Len(rnd.out) :
             rnd.out[i].kind \in {"title", "content_box"}
             => rnd.out[i].left = 100 /\ rnd.out[i].width = 1133

\* C13: grid_layout renders the first four bullet lines and no more, in
\* order, the i-th in quadrant box i with badge number i, and places no
\* picture or image container even when an image was resolved.
C13_GridAtMostFour ==
    (rnd.pc = "done" /\ rnd.style.layout = "grid_layout")
    => LET bl     == BulletLinesOf(rnd.content)
           boxes  == KindOf(rnd.out, "box")
           badges == KindOf(rnd.out, "badge")
       IN /\ Len(boxes) = Min(Len(bl), 4)
          /\ Len(badges) = Len(boxes)
          /\ \A i \in 1..Len(boxes) :
                /\ boxes[i].text = BulletText(bl[i])
                /\ <<boxes[i].left, boxes[i].top>> = GridPositions[i]
                /\ badges[i].text = <<Digit(i)>>
                /\ <<badges[i].left, badges[i].top>>
                     = <<GridPositions[i][1] + 30, GridPositions[i][2] + 30>>
          /\ KindOf(rnd.out, "picture") = <<>>
          /\ KindOf(rnd.out, "container") = <<>>
          /\ Paragraphs(rnd.out) = <<>>

\* a grid slide with a resolved image was rendered from five bullet lines,
\* the fifth different from the fourth: four boxes
C13_Witness ==
    /\ rnd.pc = "done"
    /\ rnd.style.layout = "grid_layout"
    /\ rnd.img = "ok"
    /\ Len(BulletLinesOf(rnd.content)) = 5
    /\ BulletLinesOf(rnd.content)[4] # BulletLinesOf(rnd.content)[5]
    /\ Len(KindOf(rnd.out, "box")) = 4

FallbackSentences ==
    { <<"fallback: strategic conclusions">>, <<"fallback: main conclusions">> }

\* C14: a split_content slide with a resolved image has one takeaways
\* panel; it shows the last non-empty non-bullet line of the content, and
\* a generic fallback sentence when the content is empty or has no such
\* line.
C14_TakeawaysPanel ==
    (rnd.pc = "done" /\ rnd.style.layout = "split_content" /\ rnd.img # "none")
    => LET ins   == InsightLinesOf(rnd.content)
           panel == KindOf(rnd.out, "panel_text")
       IN /\ Len(panel) = 1
          /\ ins # <<>> => panel[1].text = Strip(ins[Len(ins)])
          /\ ins = <<>> => panel[1].text \in FallbackSentences

\* a split_content slide with an image was rendered whose content has two
\* different non-bullet lines and a blank line after them; the panel shows
\* the later one
C14_Witness ==
    /\ rnd.pc = "done"
    /\ rnd.style.layout = "split_content"
    /\ rnd.img = "ok"
    /\ ~rnd.content.none
    /\ InsightLinesOf(rnd.content) = << <<"c">>, <<"#", "d">> >>
    /\ rnd.content.lines[Len(rnd.content.lines)] = <<" ">>
    /\ KindOf(rnd.out, "panel_text")[1].text = <<"#", "d">>

\* C15: a content that has non-bullet lines and no bullet line is rendered,
\* in every layout that puts the content in its text body (image_left,
\* image_right, image_top, text_only), as its non-blank lines, each a plain
\* paragraph without a bullet prefix.
C15_FreeTextIsParagraphs ==
    (/\ rnd.pc = "done"
     /\ rnd.style.layout \in BulletOnlyLayouts \cup {"text_only"}
     /\ BulletLinesOf(rnd.content) = <<>>
     /\ InsightLinesOf(rnd.content) # <<>>)
    => LET ins == InsightLinesOf(rnd.content)
           ps  == Paragraphs(rnd.out)
       IN /\ Len(ps) = Len(ins)
          /\ \A i \in 1..Len(ins) :
                ps[i].kind = "para" /\ ps[i].text = CleanMarkdown(ins[i])

-----------------------------------------------------------------------------
(* Asset resolver of the export path: PPTXService._download_image and      *)
(* _convert_to_jpg.  A response is what the network gives for one GET; a   *)
(* file is named by the task that wrote it and a generation (each name is  *)
(* a fresh uuid4 in the code).                                             *)

NoFile == [task |-> 0, gen |-> 0, ext |-> "", body |-> ""]

File(task, gen, ext, body) == [task |-> task, gen |-> gen, ext |-> ext, body |-> body]

\* image bytes PIL can decode
Decodable(body) == body \in {"jpeg", "png", "webp"}

\* image bytes the document library embeds (add_picture does not raise)
Embeddable(body) == body \in {"jpeg", "png"}

\* file_extension chosen from the Content-Type header
ExtensionOf(ctype) ==
    IF ctype = "image/png" THEN ".png"
    ELSE IF ctype = "image/webp" THEN ".webp"
    ELSE ".jpg"

\* _convert_to_jpg: a decoded image is saved as a new JPEG and the original
\* removed; on any exception the original path is returned
ConvertToJpg(file) ==
    IF Decodable(file.body)
    THEN LET jpg == File(file.task, file.gen + 1, ".jpg", "jpeg")
         IN [path |-> jpg, files |-> {jpg}]
    ELSE [path |-> file, files |-> {file}]

\* a variant that does not test response.status: the body of an error
\* response is saved and its path returned like an image
DownloadImageNoStatusTest(resp, task) ==
    IF resp.net = "error"
    THEN [ret |-> "none", path |-> NoFile, files |-> {}]
    ELSE LET file == File(task, 1, ExtensionOf(resp.ctype), resp.body)
         IN IF resp.disk = "fail"
            THEN [ret |-> "none", path |-> NoFile, files |-> {file}]
            ELSE IF file.ext # ".jpg"
                 THEN [ret |-> "path", path |-> ConvertToJpg(file).path,
                       files |-> ConvertToJpg(file).files]
                 ELSE [ret |-> "path", path |-> file, files |-> {file}]

\* _download_image(image_url, temp_dir): the returned path or None, and the
\* files the call leaves in temp_dir
DownloadImage(resp, task) ==
    IF resp.net = "error"
    THEN [ret |-> "none", path |-> NoFile, files |-> {}]
    ELSE IF resp.status # 200
    THEN [ret |-> "none", path |-> NoFile, files |-> {}]
    ELSE LET file == File(task, 1, ExtensionOf(resp.ctype), resp.body)
         IN IF resp.disk = "fail"
            THEN [ret |-> "none", path |-> NoFile, files |-> {file}]
            ELSE IF file.ext # ".jpg"
                 THEN [ret |-> "path", path |-> ConvertToJpg(file).path,
                       files |-> ConvertToJpg(file).files]
                 ELSE [ret |-> "path", path |-> file, files |-> {file}]

Resp(net, status, ctype, body, disk) ==
    [net |-> net, status |-> status, ctype |-> ctype, body |-> body, disk |-> disk]

\* the download did not bring an image: the connection failed, the status
\* was not 200, or writing the body to the scratch file failed
DownloadFailed(resp) == resp.net = "error" \/ resp.status # 200 \/ resp.disk = "fail"

-----------------------------------------------------------------------------
(* The store (database_models.py, PresentationService) and one call of     *)
(* PPTXService.export_to_pptx.  One presentation row and its slide rows.   *)
(* The export reads the rows once, at its start, and works on what it      *)
(* loaded, so the store operations are taken between exports.              *)

\* the most slide rows of the presentation
MaxSlides == 2

\* the largest slide_number a row is given
MaxNumber == 3

SlideIds == 1..MaxSlides

SlideNumbers == 1..MaxNumber

\* Slide.layout values (ai_service.py prompt; the column default)
SlideLayouts == {"title-slide", "title-content"}

\* Slide.title of a row
TitleOf(id) == <<"T", Digit(id % 10)>>

\* Slide.content of a row: a description, bullets with a key insight, NULL
ContentOf(id) ==
    CASE id % 3 = 1 -> Text(<< <<"c">> >>)
      [] id % 3 = 2 -> Text(<< <<"-", "a">>, <<" ", "-", " ", "b">>, <<" ">>, <<"#", "d">> >>)
      [] OTHER      -> NoneText

SlideRow(num, layout, img) == [num |-> num, layout |-> layout, img |-> img]

SlideRows == [num : SlideNumbers, layout : SlideLayouts, img : BOOLEAN]

\* the permutations create_presentation stores in this model
StoredOrders == {Order(PermA), Order(PermB)}

NoRows == [id \in {} |-> SlideRow(1, "title-slide", FALSE)]

EmptyStore == [exists |-> FALSE, layout_order |-> NoneOrder, slides |-> NoRows]

\* the responses the image host gives in this model: a PNG, which is
\* converted; a 404; a JPEG whose write to the scratch file fails partway
ExportResponses ==
    { Resp("ok", 200, "image/png", "png", "ok"),
      Resp("ok", 404, "text/html", "garbage", "ok"),
      Resp("ok", 200, "image/jpeg", "jpeg", "fail") }

NoResult == [ret |-> "pending", path |-> NoFile, files |-> {}]

IdleFrame ==
    [pc |-> "idle", slides |-> <<>>, layout_order |-> NoneOrder, pending |-> {},
     resp |-> <<>>, got |-> <<>>, image_paths |-> {}, ppt |-> <<>>, err |-> "none",
     ret |-> "none"]

NoFiles == [scratch |-> FALSE, files |-> {}, out |-> "absent"]

Init ==
    /\ db = EmptyStore
    /\ ex = IdleFrame
    /\ fs = NoFiles
    /\ sty = Off /\ rnd = Off /\ js = Off /\ ast = Off

BetweenExports == ex.pc = "idle"

\* PresentationService.create_presentation: the row with a shuffled
\* layout_order and one slide row per entry of structure["slides"]
CreatePresentation ==
    /\ BetweenExports
    /\ ~db.exists
    /\ \E n \in 0..MaxSlides, lo \in StoredOrders, rows \in [1..MaxSlides -> SlideRows] :
          db' = [exists |-> TRUE, layout_order |-> lo,
                 slides |-> [id \in 1..n |-> rows[id]]]
          /\ \A id \in (n + 1)..MaxSlides : rows[id] = SlideRow(1, "title-slide", FALSE)
    /\ UNCHANGED <<ex, fs, sty, rnd, js, ast>>

\* a presentation stored before the layout_order column existed: the
\* column is nullable and the export reads it with a None default
StoredLegacyPresentation ==
    /\ BetweenExports
    /\ ~db.exists
    /\ \E n \in 0..MaxSlides, rows \in [1..MaxSlides -> SlideRows] :
          db' = [exists |-> TRUE, layout_order |-> NoneOrder,
                 slides |-> [id \in 1..n |-> rows[id]]]
          /\ \A id \in (n + 1)..MaxSlides : rows[id] = SlideRow(1, "title-slide", FALSE)
    /\ UNCHANGED <<ex, fs, sty, rnd, js, ast>>

\* the loop of reorder_slides over new_order: a row that exists gets the
\* new slide_number, an id that matches no row is skipped
RECURSIVE ApplyOrder(_, _)
ApplyOrder(rows, new_order) ==
    IF new_order = <<>> THEN rows
    ELSE LET item == Head(new_order)
         IN ApplyOrder(IF item.id \in DOMAIN rows
                       THEN [rows EXCEPT ![item.id].num = item.slide_number]
                       ELSE rows,
                       Tail(new_order))

OrderItems == [id : SlideIds, slide_number : SlideNumbers]

\* a variant of the reorder that shuffles the layout_order of the row anew
ReorderSlidesReshuffles ==
    /\ BetweenExports
    /\ db.exists
    /\ \E new_order \in UNION {[1..n -> OrderItems] : n \in 1..2}, lo \in StoredOrders :
          db' = [db EXCEPT !.slides = ApplyOrder(db.slides, new_order),
                           !.layout_order = lo]
    /\ UNCHANGED <<ex, fs, sty, rnd, js, ast>>

\* PresentationService.reorder_slides(db, new_order), committed
ReorderSlides ==
    /\ BetweenExports
    /\ db.exists
    /\ \E new_order \in UNION {[1..n -> OrderItems] : n \in 1..2} :
          db' = [db EXCEPT !.slides = ApplyOrder(db.slides, new_order)]
    /\ UNCHANGED <<ex, fs, sty, rnd, js, ast>>

\* PresentationService.update_slide(db, slide_id, image_url=...): the
\* image_url of the row is replaced by a url or by the empty string; an id
\* that matches no row changes nothing
UpdateSlideImage ==
    /\ BetweenExports
    /\ db.exists
    /\ \E id \in SlideIds, img \in BOOLEAN :
          db' = IF id \in DOMAIN db.slides
                THEN [db EXCEPT !.slides[id].img = img]
                ELSE db
    /\ UNCHANGED <<ex, fs, sty, rnd, js, ast>>

\* a variant of the load that keeps the rows in the order of their ids
LoadsInRowOrder(rows) ==
    LET n == Cardinality(DOMAIN rows)
    IN { [i \in 1..n |-> i] }

\* the sequences of 1..n that sorted(slides, key=slide_number) can give: the
\* relationship loads the rows in no stated order and the sort is stable, so
\* rows with equal numbers come in either order
SortedLoads(rows) ==
    LET n == Cardinality(DOMAIN rows)
    IN { s \in [1..n -> DOMAIN rows] :
           /\ \A i, j \in 1..n : i # j => s[i] # s[j]
           /\ \A i, j \in 1..n : i < j => rows[s[i]].num <= rows[s[j]].num }

\* a loaded slide: the row and its id
Loaded(rows, id) ==
    [id |-> id, num |-> rows[id].num, layout |-> rows[id].layout, img |-> rows[id].img]

\* the zip loop of _download_images: a result that is a str naming a file
\* that exists is stored under its slide_number, later tasks overwriting
\* earlier ones; image_paths is a set of <<slide_number, file>> pairs
RECURSIVE ZipPaths(_, _, _)
ZipPaths(slides, got, i) ==
    IF i = 0 THEN {}
    ELSE LET before == ZipPaths(slides, got, i - 1)
         IN IF slides[i].img /\ got[i].ret = "path" /\ got[i].path \in got[i].files
            THEN {p \in before : p[1] # slides[i].num} \cup {<<slides[i].num, got[i].path>>}
            ELSE before

\* _download_images(slides, temp_dir), once gather has returned
ImagePaths(slides, got) == ZipPaths(slides, got, Len(slides))

\* image_paths.get(slide_number) as the renderer sees the file
ImageFor(image_paths, num) ==
    IF \E p \in image_paths : p[1] = num
    THEN LET f == (CHOOSE p \in image_paths : p[1] = num)[2]
         IN IF Embeddable(f.body) THEN "ok" ELSE "bad"
    ELSE "none"

\* _add_slide(ppt, slide_data, image_path, layout_order, style): the slide
AddSlide(slide, img, layout_order) ==
    IF slide.layout = "title-slide"
    THEN [kind |-> "title", layout |-> "title-slide",
          shapes |-> CreateTitleSlide(TitleOf(slide.id), ContentOf(slide.id))]
    ELSE LET style == GetSlideStyle(slide.num, layout_order)
         IN [kind |-> "content", layout |-> style.layout,
             shapes |-> CreateContentSlide(TitleOf(slide.id), ContentOf(slide.id), img, style)]

\* export_to_pptx up to the gather: the row is looked up; a missing one
\* raises before any scratch directory exists; else the slides are sorted,
\* the scratch directory made and one download task started per slide that
\* has an image_url
ExportBegin ==
    /\ BetweenExports
    /\ IF ~db.exists
       THEN /\ ex' = [IdleFrame EXCEPT !.pc = "raised", !.err = "not_found"]
            /\ fs' = NoFiles
       ELSE \E s \in SortedLoads(db.slides) :
              LET slides == [i \in 1..Len(s) |-> Loaded(db.slides, s[i])]
              IN /\ ex' = [IdleFrame EXCEPT
                              !.pc = "download",
                              !.slides = slides,
                              !.layout_order = db.layout_order,
                              !.pending = {i \in 1..Len(s) : slides[i].img},
                              !.resp = [i \in 1..Len(s) |-> Resp("none", 0, "", "", "")],
                              !.got = [i \in 1..Len(s) |-> NoResult]]
                 /\ fs' = [scratch |-> TRUE, files |-> {}, out |-> "absent"]
    /\ UNCHANGED <<db, sty, rnd, js, ast>>

\* one download task of the gather finishes, in any order among the tasks
DownloadFinish ==
    /\ ex.pc = "download"
    /\ \E i \in ex.pending, resp \in ExportResponses :
          LET r == DownloadImage(resp, i)
          IN /\ ex' = [ex EXCEPT !.pending = @ \ {i}, !.resp[i] = resp, !.got[i] = r]
             /\ fs' = [fs EXCEPT !.files = @ \cup r.files]
    /\ UNCHANGED <<db, sty, rnd, js, ast>>

\* a variant of the gather that returns while tasks are still pending
GatherDoneEarly ==
    /\ ex.pc = "download"
    /\ ex' = [ex EXCEPT !.pc = "render", !.image_paths = ImagePaths(ex.slides, ex.got)]
    /\ UNCHANGED <<db, fs, sty, rnd, js, ast>>

\* gather has every result: image_paths is built and rendering can begin
GatherDone ==
    /\ ex.pc = "download"
    /\ ex.pending = {}
    /\ ex' = [ex EXCEPT !.pc = "render", !.image_paths = ImagePaths(ex.slides, ex.got)]
    /\ UNCHANGED <<db, fs, sty, rnd, js, ast>>

\* one turn of the loop over slides: _add_slide appends the slide
RenderSlide ==
    /\ ex.pc = "render"
    /\ Len(ex.ppt) < Len(ex.slides)
    /\ LET slide == ex.slides[Len(ex.ppt) + 1]
       IN ex' = [ex EXCEPT !.ppt = Append(@, AddSlide(slide,
                               ImageFor(ex.image_paths, slide.num), ex.layout_order))]
    /\ UNCHANGED <<db, fs, sty, rnd, js, ast>>

\* an exception escapes _add_slide (the document library rejecting a text,
\* for one): control passes to the finally block
RenderRaises ==
    /\ ex.pc = "render"
    /\ Len(ex.ppt) < Len(ex.slides)
    /\ ex' = [ex EXCEPT !.pc = "finally", !.err = "render"]
    /\ UNCHANGED <<db, fs, sty, rnd, js, ast>>

\* NamedTemporaryFile(delete=False) makes the output file, ppt.save writes it
SaveDocument ==
    /\ ex.pc = "render"
    /\ Len(ex.ppt) = Len(ex.slides)
    /\ \/ /\ ex' = [ex EXCEPT !.pc = "finally", !.ret = "path"]
          /\ fs' = [fs EXCEPT !.out = "complete"]
       \/ /\ ex' = [ex EXCEPT !.pc = "finally", !.err = "save"]
          /\ fs' = [fs EXCEPT !.out = "empty"]
    /\ UNCHANGED <<db, sty, rnd, js, ast>>

\* a variant of the cleanup that runs on the success path only
ExportFinallyOnSuccess ==
    /\ ex.pc = "finally"
    /\ ex' = [ex EXCEPT !.pc = IF ex.err = "none" THEN "returned" ELSE "raised"]
    /\ fs' = IF ex.err = "none" THEN [fs EXCEPT !.scratch = FALSE, !.files = {}] ELSE fs
    /\ UNCHANGED <<db, sty, rnd, js, ast>>

\* the finally block: shutil.rmtree(temp_dir), then the return or the raise
ExportFinally ==
    /\ ex.pc = "finally"
    /\ ex' = [ex EXCEPT !.pc = IF ex.err = "none" THEN "returned" ELSE "raised"]
    /\ fs' = [fs EXCEPT !.scratch = FALSE, !.files = {}]
    /\ UNCHANGED <<db, sty, rnd, js, ast>>

\* the call is over: its frame is dropped, and the output file is the
\* caller's from here on
ExportEnds ==
    /\ ex.pc \in {"returned", "raised"}
    /\ ex' = IdleFrame
    /\ fs' = NoFiles
    /\ UNCHANGED <<db, sty, rnd, js, ast>>

Next ==
    \/ CreatePresentation
    \/ StoredLegacyPresentation
    \/ ReorderSlides
    \/ UpdateSlideImage
    \/ ExportBegin
    \/ DownloadFinish
    \/ GatherDone
    \/ RenderSlide
    \/ RenderRaises
    \/ SaveDocument
    \/ ExportFinally
    \/ ExportEnds

Spec == Init /\ [][Next]_vars

-----------------------------------------------------------------------------
(* Claims about the export *)

ExportOver == ex.pc \in {"returned", "raised"}

\* how many of the first n loaded slides are content slides
RECURSIVE ContentBefore(_, _)
ContentBefore(slides, n) ==
    IF n = 0 THEN 0
    ELSE ContentBefore(slides, n - 1)
         + (IF slides[n].layout # "title-slide" THEN 1 ELSE 0)

\* C1: with a stored permutation, the k-th content slide of the deck in
\* slide-number order (k from 0) is rendered with layout_order[k mod 6],
\* whatever the slide numbers of the deck are.
C1_KthContentSlideUsesPermutation ==
    OrderTruthy(ex.layout_order)
    => \A i \in 1..Len(ex.ppt) :
          ex.ppt[i].kind = "content"
          => ex.ppt[i].layout
               = ex.layout_order.items[(ContentBefore(ex.slides, i - 1)
                                           % Len(ex.layout_order.items)) + 1]

\* C2: without a stored permutation, the k-th content slide (k from 0) is
\* rendered with the (k mod 6)-th layout kind in declaration order.
C2_KthContentSlideCyclesKinds ==
    ~OrderTruthy(ex.layout_order)
    => \A i \in 1..Len(ex.ppt) :
          ex.ppt[i].kind = "content"
          => ex.ppt[i].layout
               = LayoutKinds[(ContentBefore(ex.slides, i - 1) % Len(LayoutKinds)) + 1]

\* C7: every artifact export_to_pptx returns holds at least one slide, and
\* the artifact of a presentation without slides holds exactly one, a title
\* slide.
C7_ArtifactHasASlide ==
    (ex.pc = "returned" /\ ex.ret = "path")
    => /\ Len(ex.ppt) >= 1
       /\ Len(ex.slides) = 0 => (Len(ex.ppt) = 1 /\ ex.ppt[1].kind = "title")

\* C20: the slides of a returned artifact are the stored slides, one
\* slide of the artifact for each stored slide, in ascending slide_number
\* order, whatever the order of the rows in the store and whatever
\* reorder_slides did to the numbers.
C20_ArtifactInNumberOrder ==
    (ex.pc = "returned" /\ ex.ret = "path")
    => /\ Len(ex.ppt) = Cardinality(DOMAIN db.slides)
       /\ {ex.slides[i].id : i \in 1..Len(ex.slides)} = DOMAIN db.slides
       /\ \A i \in 1..Len(ex.ppt) :
             ex.ppt[i] = AddSlide(Loaded(db.slides, ex.slides[i].id),
                                  ImageFor(ex.image_paths, db.slides[ex.slides[i].id].num),
                                  db.layout_order)
       /\ \A i, j \in 1..Len(ex.ppt) :
             i < j => db.slides[ex.slides[i].id].num <= db.slides[ex.slides[j].id].num

\* an artifact was returned for two stored slides whose second row has the
\* smaller number: the slide of the second row comes first
C20_Witness ==
    /\ ex.pc = "returned"
    /\ ex.ret = "path"
    /\ Cardinality(DOMAIN db.slides) = 2
    /\ db.slides[1].num = 3
    /\ db.slides[2].num = 1
    /\ Len(ex.ppt) = 2
    /\ ex.slides[1].id = 2
    /\ ex.ppt[1] # ex.ppt[2]

\* the loaded slides with slide i stripped of its image_url
WithoutImageUrl(slides, i) == [slides EXCEPT ![i].img = FALSE]

\* C8: a download that fails (connection error, status other than 200, or a
\* failure while the body is written) raises nothing out of the export, and
\* its slide is rendered exactly as the same slide of the same deck would
\* be with no image_url at all.
C8_FailedDownloadDegrades ==
    /\ ex.err \in {"none", "not_found", "render", "save"}
    /\ \A i \in 1..Len(ex.ppt) :
          (ex.slides[i].img /\ DownloadFailed(ex.resp[i]))
          => ex.ppt[i]
               = AddSlide(ex.slides[i],
                          ImageFor(ImagePaths(WithoutImageUrl(ex.slides, i), ex.got),
                                   ex.slides[i].num),
                          ex.layout_order)

\* an export returned its artifact after the download for a content slide
\* came back 404, the slide rendered with its title and its text
C8_Witness ==
    /\ ex.pc = "returned"
    /\ \E i \in 1..Len(ex.ppt) :
          /\ ex.slides[i].img
          /\ ex.resp[i].status = 404
          /\ ex.ppt[i].kind = "content"
          /\ \E j \in 1..Len(ex.ppt[i].shapes) : ex.ppt[i].shapes[j].kind = "title"
          /\ \E j \in 1..Len(ex.ppt[i].shapes) : ex.ppt[i].shapes[j].kind = "bullet"

\* C9: once export_to_pptx has returned or raised, on every exit path, the
\* scratch directory of the call and every file downloaded into it are gone.
C9_ScratchRemoved ==
    ExportOver => (~fs.scratch /\ fs.files = {})

\* an export raised while rendering, partway through the deck, after a
\* download had put a file into the scratch directory
C9_Witness ==
    /\ ex.pc = "raised"
    /\ ex.err = "render"
    /\ Len(ex.ppt) >= 1
    /\ \E i \in 1..Len(ex.slides) : ex.got[i].files # {}
    /\ ~fs.scratch

\* C23: when export_to_pptx fails, the failure is an exception and no output
\* artifact file, empty or partial, is left behind; an artifact file exists
\* only for a document that was serialized completely.
C23_NoArtifactOnFailure ==
    /\ ex.pc = "raised" => fs.out = "absent"
    /\ fs.out # "absent" => (fs.out = "complete" /\ ex.err = "none")

\* each of the six layout kinds exactly once
IsLayoutPermutation(items) ==
    /\ Len(items) = Len(LayoutKinds)
    /\ \A k \in LayoutKindSet : Cardinality({i \in 1..Len(items) : items[i] = k}) = 1

\* C25: the layout_order that create_presentation stored holds each of the
\* six layout kinds exactly once, and no later step on the presentation (an
\* update of a slide, a reorder, any step of an export) changes it; the
\* export works with the stored value.
C25_LayoutOrderPersisted ==
    [][ /\ (db.exists /\ ~db.layout_order.none) => IsLayoutPermutation(db.layout_order.items)
        /\ db.exists => (db'.exists /\ db'.layout_order = db.layout_order)
        /\ ex'.pc \in {"download", "render", "finally", "returned"}
              => ex'.layout_order = db'.layout_order ]_vars

\* an export has returned for a presentation created with the shuffled
\* order PermB, its two content slides carrying the numbers 3 and 1
C25_Witness ==
    /\ ex.pc = "returned"
    /\ db.layout_order = Order(PermB)
    /\ ex.layout_order = Order(PermB)
    /\ DOMAIN db.slides = {1, 2}
    /\ db.slides[1].num = 3 /\ db.slides[2].num = 1
    /\ Len(ex.ppt) = 2
    /\ ex.ppt[1].kind = "content"

\* the slides whose download task has not finished
InFlight == {i \in 1..Len(ex.slides) : ex.slides[i].img /\ ex.got[i].ret = "pending"}

\* C26: the downloads of one deck are issued together, and every one of
\* them has finished, with a path or with a failure, before the first slide
\* is rendered; no download is in flight while a slide is rendered or the
\* document is saved.
C26_DownloadsDoneBeforeRender ==
    /\ ex.pc = "download"
          => /\ ex.ppt = <<>>
             /\ fs.out = "absent"
             /\ InFlight = ex.pending
    /\ ex.pc # "download"
          => /\ ex.pending = {}
             /\ InFlight = {}
    /\ (Len(ex.ppt) > 0 \/ fs.out # "absent") => InFlight = {}

\* the first of two slides has been rendered; both have an image_url, one
\* download gave a path and the other failed
C26_Witness ==
    /\ ex.pc = "render"
    /\ Len(ex.slides) = 2
    /\ Len(ex.ppt) = 1
    /\ ex.slides[1].img /\ ex.slides[2].img
    /\ \E i, j \in 1..2 : ex.got[i].ret = "path" /\ ex.got[j].ret = "none"

\* what the download of slide i alone gives the renderer
OwnImage(i) ==
    IF ex.slides[i].img /\ ex.got[i].ret = "path" /\ ex.got[i].path \in ex.got[i].files
    THEN IF Embeddable(ex.got[i].path.body) THEN "ok" ELSE "bad"
    ELSE "none"

\* C27: every slide is rendered with the image downloaded from its own
\* image_url, and with no image when it has no image_url or its download
\* failed, also in a deck in which two slides share a slide_number.
C27_OwnImageOnly ==
    \A i \in 1..Len(ex.ppt) :
       ex.ppt[i] = AddSlide(ex.slides[i], OwnImage(i), ex.layout_order)

DistinctNumbers(rows) ==
    \A a, b \in DOMAIN rows : a # b => rows[a].num # rows[b].num

\* C28: a step on a presentation whose slides have pairwise distinct slide
\* numbers leaves them pairwise distinct: a reorder that would give two
\* slides the same number changes nothing.
C28_NumbersStayDistinct ==
    [][ (db.exists /\ DistinctNumbers(db.slides)) => DistinctNumbers(db'.slides) ]_vars

-----------------------------------------------------------------------------
(* build_presentation_from_json (endpoints.py): the document built from    *)
(* the JSON a Presentation row stores.  JSON strings are TLA+ strings; a   *)
(* JSON value is a tagged record.                                          *)

JsonValue(t, s, items, url) == [t |-> t, s |-> s, items |-> items, url |-> url]

NoneVal == JsonValue("none", "", <<>>, "")

StrVal(s) == JsonValue("str", s, <<>>, "")

ListVal(items) == JsonValue("list", "", items, "")

\* a dict value: "url" is its url member ("" when there is none), s its
\* "title" member, the caption
DictVal(url, caption) == JsonValue("dict", caption, <<>>, url)

\* an item of a list value: a string, a number, or a dict given by the
\* sequence of its member values
Item(t, s, members) == [t |-> t, s |-> s, members |-> members]

Field(k, v) == [k |-> k, v |-> v]

\* bool(value) of a JSON value
JsonTruthy(v) ==
    CASE v.t = "none" -> FALSE
      [] v.t = "str"  -> v.s # ""
      [] v.t = "list" -> v.items # <<>>
      [] OTHER        -> TRUE

\* str(value)
Str(v) == IF v.t = "str" THEN v.s ELSE "<repr>"

\* fval = lambda k: (fields.get(k) or {}).get("value")
Fval(fields, k) ==
    LET hits == SelectSeq(fields, LAMBDA f : f.k = k)
    IN IF hits = <<>> THEN NoneVal ELSE hits[1].v

\* _nice_title(s) on the slide ids of this model
NiceTitle(s) ==
    CASE s = "key_points" -> "Key Points"
      [] s = "__"         -> ""
      [] OTHER            -> ""

IsScalarMember(m) == m.t \in {"str", "num"}

\* _flatten_list(v): strings, and the first scalar member of a dict item
RECURSIVE FlattenItems(_)
FlattenItems(items) ==
    IF items = <<>> THEN <<>>
    ELSE LET it == Head(items)
             one == IF it.t = "str" THEN <<it.s>>
                    ELSE IF it.t = "dict"
                    THEN LET sc == SelectSeq(it.members, IsScalarMember)
                         IN IF sc = <<>> THEN <<>> ELSE <<sc[1].s>>
                    ELSE <<>>
         IN one \o FlattenItems(Tail(items))

FlattenList(v) == IF v.t = "list" THEN FlattenItems(v.items) ELSE <<>>

\* the suffix _download_image_to_tmp takes from the path of the url
SuffixOf(url) ==
    CASE url = "http://h/a.png"  -> ".png"
      [] url = "http://h/b.webp" -> ".webp"
      [] url = "http://h/c.jpg"  -> ".jpg"
      [] OTHER                   -> ".png"

\* r.raise_for_status() passes
IsSuccess(status) == status >= 200 /\ status < 300

\* _download_image_to_tmp(url): the returned path or None, and the files
\* the call leaves in the temporary directory
DownloadImageToTmp(url, resp, task) ==
    IF resp.net = "error" \/ ~IsSuccess(resp.status)
    THEN [ret |-> "none", path |-> NoFile, files |-> {}]
    ELSE LET file == File(task, 1, SuffixOf(url), resp.body)
         IN IF resp.disk = "fail"
            THEN [ret |-> "none", path |-> NoFile, files |-> {file}]
            ELSE [ret |-> "path", path |-> file, files |-> {file}]

JsonSlide(kind, title, sub, paras) ==
    [kind |-> kind, title |-> title, sub |-> sub, paras |-> paras]

\* the pictures of one slide object: for every field whose value is a dict
\* with a url, the download and, when it returned a path, _add_image_slide;
\* add_picture raises on bytes it cannot read, the second time out of the
\* builder
RECURSIVE AddImageSlides(_, _, _)
AddImageSlides(fields, resp, task) ==
    IF fields = <<>> THEN [slides |-> <<>>, tmp |-> {}, raised |-> FALSE]
    ELSE LET v == Head(fields).v
         IN IF v.t = "dict" /\ v.url # ""
            THEN LET img == DownloadImageToTmp(v.url, resp, task)
                 IN IF img.ret = "none"
                    THEN LET rest == AddImageSlides(Tail(fields), resp, task + 1)
                         IN [rest EXCEPT !.tmp = img.files \cup @]
                    ELSE IF ~Embeddable(img.path.body)
                    THEN [slides |-> <<>>, tmp |-> img.files, raised |-> TRUE]
                    ELSE LET rest == AddImageSlides(Tail(fields), resp, task + 1)
                         IN [rest EXCEPT
                               !.slides = <<JsonSlide("image", "", v.s, <<>>)>> \o @,
                               !.tmp = img.files \cup @]
            ELSE AddImageSlides(Tail(fields), resp, task)

\* "\n".join(parts)
RECURSIVE JoinParts(_)
JoinParts(parts) ==
    IF parts = <<>> THEN ""
    ELSE IF Len(parts) = 1 THEN parts[1]
    ELSE parts[1] \o "\n" \o JoinParts(Tail(parts))

\* bullets: _flatten_list of every list-valued field, in field order
RECURSIVE BulletsOf(_)
BulletsOf(fields) ==
    IF fields = <<>> THEN <<>>
    ELSE FlattenList(Head(fields).v) \o BulletsOf(Tail(fields))

\* the first truthy operand of an or-chain of strings, the last when none is
RECURSIVE FirstTruthy(_)
FirstTruthy(xs) ==
    IF Len(xs) = 1 \/ Head(xs) # "" THEN Head(xs) ELSE FirstTruthy(Tail(xs))

StrOrEmpty(v) == IF JsonTruthy(v) THEN Str(v) ELSE ""

\* one turn of the loop over slides: the slides the slide object adds to
\* the document, the temporary files it leaves, whether it raised
BuildSlide(obj, title, resp, task) ==
    LET fields == obj.fields
        pics   == AddImageSlides(fields, resp, task)
    IN IF JsonTruthy(Fval(fields, "title")) \/ JsonTruthy(Fval(fields, "subtitle"))
       THEN LET subs == SelectSeq(<<Fval(fields, "subtitle"), Fval(fields, "presenter"),
                                    Fval(fields, "date")>>, JsonTruthy)
                first == JsonSlide("title", StrOrEmpty(Fval(fields, "title")),
                                   JoinParts([i \in 1..Len(subs) |-> Str(subs[i])]), <<>>)
            IN [pics EXCEPT !.slides = <<first>> \o @]
       ELSE LET header == FirstTruthy(<<obj.title, StrOrEmpty(Fval(fields, "section")),
                                        StrOrEmpty(Fval(fields, "header")),
                                        NiceTitle(obj.id), title>>)
                texts  == SelectSeq(fields, LAMBDA f : f.v.t = "str"
                                                      /\ f.k \notin {"title", "subtitle"})
                text_fields == [i \in 1..Len(texts) |-> texts[i].v.s]
                bullets == BulletsOf(fields)
                paras  == IF text_fields = <<>> /\ bullets = <<>> THEN <<"">>
                          ELSE text_fields \o bullets
                first  == JsonSlide("content", header, "", paras)
            IN [pics EXCEPT !.slides = <<first>> \o @]

\* a variant of the end of the builder that adds no slide to an empty
\* document
FallbackOmitted(prs, title) == prs

\* if len(prs.slides) == 0: one title slide that carries the title passed
FallbackSlide(prs, title) ==
    IF Len(prs) = 0 THEN <<JsonSlide("title", title, "", <<>>)>> ELSE prs

\* the most slide objects of the JSON document
MaxJsonSlides == 2

ListItems ==
    << Item("str", "a", <<>>),
       Item("dict", "", <<Item("list", "", <<>>), Item("str", "b", <<>>),
                          Item("str", "c", <<>>)>>),
       Item("num", "3", <<>>) >>

SlideObj(id, title, fields) == [id |-> id, title |-> title, fields |-> fields]

\* the slide objects of this model: a title slide; a subtitle with a
\* picture; a bullet list; free text with a picture; a title field next to
\* a bullet list; an object without fields
SlideObjs ==
    { SlideObj("intro", "", <<Field("title", StrVal("Hello")),
                              Field("presenter", StrVal("Ann"))>>),
      SlideObj("", "", <<Field("subtitle", StrVal("Sub")),
                         Field("picture", DictVal("http://h/a.png", "Cap"))>>),
      SlideObj("key_points", "", <<Field("items", ListVal(ListItems))>>),
      SlideObj("__", "", <<Field("text", StrVal("body")),
                           Field("picture", DictVal("http://h/b.webp", ""))>>),
      SlideObj("", "Head", <<Field("title", StrVal("T")),
                             Field("items", ListVal(ListItems))>>),
      SlideObj("", "", <<>>) }

\* presentation_data: no "slides" key, "slides": null, or a list
JsonData ==
    {[key |-> "missing", slides |-> <<>>], [key |-> "none", slides |-> <<>>]}
    \cup {[key |-> "list", slides |-> s] :
            s \in UNION {[1..n -> SlideObjs] : n \in 0..MaxJsonSlides}}

\* download_presentation passes db_pres.title or "Presentation"
JsonTitles == {"Deck", "Presentation"}

JsonResponses ==
    { Resp("ok", 200, "image/png", "png", "ok"),
      Resp("ok", 200, "image/webp", "webp", "ok"),
      Resp("ok", 404, "text/html", "garbage", "ok"),
      Resp("error", 0, "", "", "ok") }

JsonIdle ==
    [pc |-> "idle", data |-> [key |-> "missing", slides |-> <<>>], title |-> "",
     slides |-> <<>>, i |-> 0, prs |-> <<>>, tmp |-> {}, out |-> "absent",
     ret |-> "none", err |-> "none"]

JsonInit ==
    /\ js = JsonIdle
    /\ db = Off /\ ex = Off /\ fs = Off /\ sty = Off /\ rnd = Off /\ ast = Off

\* the call: slides = presentation_data.get("slides", []) or []
JsonBuildBegin ==
    /\ js.pc = "idle"
    /\ \E data \in JsonData, title \in JsonTitles :
          js' = [JsonIdle EXCEPT
                    !.pc = "loop", !.data = data, !.title = title, !.i = 1,
                    !.slides = IF data.key = "list" THEN data.slides ELSE <<>>]
    /\ UNCHANGED <<db, ex, fs, sty, rnd, ast>>

\* one turn of "for slide_obj in slides"
JsonLoopStep ==
    /\ js.pc = "loop"
    /\ js.i <= Len(js.slides)
    /\ \E resp \in JsonResponses :
          LET b == BuildSlide(js.slides[js.i], js.title, resp, 10 * js.i)
          IN js' = [js EXCEPT
                      !.prs = @ \o b.slides,
                      !.tmp = @ \cup b.tmp,
                      !.i = @ + 1,
                      !.pc = IF b.raised THEN "raised" ELSE "loop",
                      !.err = IF b.raised THEN "picture" ELSE "none"]
    /\ UNCHANGED <<db, ex, fs, sty, rnd, ast>>

\* after the loop: the fallback slide, then NamedTemporaryFile(delete=False)
\* and prs.save, which returns the path or raises with the file created
JsonSave ==
    /\ js.pc = "loop"
    /\ js.i > Len(js.slides)
    /\ \E saved \in BOOLEAN :
          js' = [js EXCEPT
                    !.prs = FallbackSlide(js.prs, js.title),
                    !.pc = IF saved THEN "returned" ELSE "raised",
                    !.out = IF saved THEN "complete" ELSE "partial",
                    !.ret = IF saved THEN "path" ELSE "none",
                    !.err = IF saved THEN "none" ELSE "save"]
    /\ UNCHANGED <<db, ex, fs, sty, rnd, ast>>

JsonNext == JsonBuildBegin \/ JsonLoopStep \/ JsonSave

SpecJson == JsonInit /\ [][JsonNext]_vars

\* C6: build_presentation_from_json called with data whose slide list is
\* empty, null or missing returns a document with exactly one slide, a
\* title slide whose title is the title passed in.
C6_EmptyDeckGetsFallbackTitle ==
    (js.pc = "returned" /\ js.slides = <<>>)
    => js.prs = <<JsonSlide("title", js.title, "", <<>>)>>

\* the builder returned for data without a "slides" key, one slide in the
\* document
C6_Witness ==
    /\ js.pc = "returned"
    /\ js.data.key = "missing"
    /\ js.title = "Deck"
    /\ Len(js.prs) = 1
    /\ js.prs[1].title = "Deck"

\* C24: every image file that build_presentation_from_json downloaded to a
\* local temporary file has been deleted by the time the call returns its
\* artifact path or raises.
C24_TmpImagesDeleted ==
    js.pc \in {"returned", "raised"} => js.tmp = {}

\* the fields of a slide object the classifier tags as content: a list,
\* or a string that is neither the title, the subtitle nor one of the
\* subtitle parts (presenter, date)
IsContentField(f) ==
    \/ f.v.t = "list"
    \/ f.v.t = "str" /\ f.k \notin {"title", "subtitle", "presenter", "date"}

HasTitleField(obj) ==
    JsonTruthy(Fval(obj.fields, "title")) \/ JsonTruthy(Fval(obj.fields, "subtitle"))

HasContentField(obj) == SelectSeq(obj.fields, IsContentField) # <<>>

\* the first slide object has been through the loop: its slide is prs[1]
FirstObjectBuilt == js.pc # "idle" /\ js.i > 1 /\ Len(js.slides) >= 1

\* one string per scalar-coercible item: a string or a number as its string
\* form, a record as the string form of its first scalar member
RECURSIVE CoercedItems(_)
CoercedItems(items) ==
    IF items = <<>> THEN <<>>
    ELSE LET it == Head(items)
             sc == SelectSeq(it.members, IsScalarMember)
             one == IF it.t \in {"str", "num"} THEN <<it.s>>
                    ELSE IF it.t = "dict" /\ sc # <<>> THEN <<sc[1].s>>
                    ELSE <<>>
         IN one \o CoercedItems(Tail(items))

\* C16: the title-slide path is taken only for a slide object that has a
\* title or subtitle field and no content field; an object that has a title
\* or subtitle field next to a bullet list or a free text is rendered as a
\* content slide that shows the bullets and the text.
C16_TitlePathOnlyWithoutContent ==
    FirstObjectBuilt
    => LET obj == js.slides[1]
           s   == js.prs[1]
       IN /\ s.kind = "title" => (HasTitleField(obj) /\ ~HasContentField(obj))
          /\ (HasTitleField(obj) /\ HasContentField(obj))
                => /\ s.kind = "content"
                   /\ \A b \in {BulletsOf(obj.fields)[i] : i \in 1..Len(BulletsOf(obj.fields))} :
                         \E j \in 1..Len(s.paras) : s.paras[j] = b

\* C19: the bullets of a content slide are one string per scalar-coercible
\* item of its list fields, in order: strings as they are, numbers and
\* booleans in their string form, a record by its first scalar member; no
\* such item is lost.
C19_FlattenKeepsScalars ==
    (FirstObjectBuilt /\ js.prs[1].kind = "content"
        /\ \E i \in 1..Len(js.slides[1].fields) : js.slides[1].fields[i].v.t = "list")
    => LET fields == js.slides[1].fields
           lists  == SelectSeq(fields, LAMBDA f : f.v.t = "list")
           texts  == SelectSeq(fields, LAMBDA f : f.v.t = "str"
                                                 /\ f.k \notin {"title", "subtitle"})
       IN js.prs[1].paras
            = [i \in 1..Len(texts) |-> texts[i].v.s] \o CoercedItems(lists[1].v.items)

-----------------------------------------------------------------------------
(* The two shapes of a field collection (endpoints.py): a mapping          *)
(* key -> {type, value} and a list of {id, type, value} records, through   *)
(* enrich_presentation_with_images and then build_presentation_from_json.  *)
(* The same field content is held in both shapes side by side.  A member   *)
(* of a dict value is present exactly when it is not "".                   *)

NoPayload == [present |-> FALSE, query |-> "", url |-> ""]

Payload(query, url) == [present |-> TRUE, query |-> query, url |-> url]

\* a field value: a string s, or a dict with its "type", "query", "url" and
\* "title" members and its "content" payload
FieldValue(kind, s, type, query, url, content) ==
    [kind |-> kind, s |-> s, type |-> type, query |-> query, url |-> url,
     content |-> content]

\* one field: its key (mapping) or id (list), its declared type, its value
FieldRec(id, type, v) == [id |-> id, type |-> type, v |-> v]

\* imgs[0] of fetch_tumblr_images: url, title, query and more
FetchedImage(query) == FieldValue("dict", "cap", "", query, "http://h/f", NoPayload)

\* the mapping branch of enrich_presentation_with_images on one field
EnrichMapField(fld, default_query, fetched) ==
    LET val == fld.v
        is_image_block   == val.kind = "dict" /\ val.type = "image"
        looks_like_image == val.kind = "dict" /\ (val.query # "" \/ val.url # "")
        content == IF val.content.present THEN val.content
                   ELSE [query |-> val.query, url |-> val.url]
        query == IF content.query # "" THEN content.query ELSE default_query
    IN IF (is_image_block \/ looks_like_image) /\ query # "" /\ content.url = "" /\ fetched
       THEN IF is_image_block
            THEN [fld EXCEPT !.v.content = Payload(query, "http://h/f")]
            ELSE [fld EXCEPT !.v = FetchedImage(query)]
       ELSE fld

\* the list branch of enrich_presentation_with_images on one field
EnrichListField(fld, fetched) ==
    LET v == fld.v
        query == IF v.kind = "dict" THEN v.query ELSE v.s
    IN IF fld.type = "image" /\ query # "" /\ fetched
       THEN [fld EXCEPT !.v = FetchedImage(query)]
       ELSE fld

\* the value as build_presentation_from_json reads it: a string, or a dict
\* with val.get("url") and val.get("title")
AsJsonValue(v) == IF v.kind = "str" THEN StrVal(v.s) ELSE DictVal(v.url, v.s)

\* both shapes reach the builder as the mapping id -> {"value": value}
AsSlideObj(fields) ==
    SlideObj("", "", [i \in 1..Len(fields) |-> Field(fields[i].id, AsJsonValue(fields[i].v))])

\* the most fields of the slide
MaxFields == 2

QueryOnly == FieldValue("dict", "", "", "cats", "", NoPayload)

UrlOnly == FieldValue("dict", "cap", "", "", "http://h/a.png", NoPayload)

QueryAndUrl == FieldValue("dict", "", "", "cats", "http://h/a.png", NoPayload)

ImageBlockQuery == FieldValue("dict", "", "image", "", "", Payload("cats", ""))

ImageBlockUrl == FieldValue("dict", "", "image", "", "", Payload("", "http://h/a.png"))

QueryString == FieldValue("str", "cats", "", "", "", NoPayload)

\* the fields of this model: a title, a free text, and a picture field in
\* each of the forms above, declared as an image or not
FieldRecs ==
    { FieldRec("title", "text", FieldValue("str", "Hello", "", "", "", NoPayload)),
      FieldRec("body", "text", FieldValue("str", "words", "", "", "", NoPayload)) }
    \cup { FieldRec("pic", type, v) :
             type \in {"image", ""},
             v \in {QueryOnly, UrlOnly, QueryAndUrl, ImageBlockQuery, ImageBlockUrl,
                    QueryString} }

DistinctIds(fields) ==
    \A i, j \in 1..Len(fields) : i # j => fields[i].id # fields[j].id

FieldCollections ==
    {fields \in UNION {[1..n -> FieldRecs] : n \in 1..MaxFields} : DistinctIds(fields)}

\* the picture host answers every download with a PNG
PictureResp == Resp("ok", 200, "image/png", "png", "ok")

EnrichInit ==
    /\ js \in [pc : {"stored"}, fields : FieldCollections, default_query : {"", "dogs"},
               fetched : BOOLEAN, map : {<<>>}, list : {<<>>},
               built_map : {<<>>}, built_list : {<<>>}]
    /\ db = Off /\ ex = Off /\ fs = Off /\ sty = Off /\ rnd = Off /\ ast = Off

\* enrich_presentation_with_images on the slide, in each shape
EnrichCall ==
    /\ js.pc = "stored"
    /\ js' = [js EXCEPT
                !.pc = "enriched",
                !.map = [i \in 1..Len(js.fields) |->
                           EnrichMapField(js.fields[i], js.default_query, js.fetched)],
                !.list = [i \in 1..Len(js.fields) |->
                            EnrichListField(js.fields[i], js.fetched)]]
    /\ UNCHANGED <<db, ex, fs, sty, rnd, ast>>

\* build_presentation_from_json on the enriched slide, in each shape
BuildCall ==
    /\ js.pc = "enriched"
    /\ js' = [js EXCEPT
                !.pc = "built",
                !.built_map = BuildSlide(AsSlideObj(js.map), "Deck", PictureResp, 1).slides,
                !.built_list = BuildSlide(AsSlideObj(js.list), "Deck", PictureResp, 1).slides]
    /\ UNCHANGED <<db, ex, fs, sty, rnd, ast>>

EnrichNext == EnrichCall \/ BuildCall

SpecEnrich == EnrichInit /\ [][EnrichNext]_vars

\* C17: the same field content supplied as a mapping or as a list of
\* records is classified the same way: the enrichment resolves the same
\* fields to the same values and the builder emits the same slides.
C17_ShapesClassifiedAlike ==
    /\ js.pc \in {"enriched", "built"} => js.map = js.list
    /\ js.pc = "built" => js.built_map = js.built_list

\* a value is an image when it is a record with type "image" or carries a
\* url or a query, its own or in its content payload
IsImageValue(v) ==
    v.kind = "dict" /\ (v.type = "image" \/ v.query # "" \/ v.url # "")

ResolvedUrl(v) ==
    IF v.url # "" THEN v.url ELSE IF v.content.present THEN v.content.url ELSE ""

\* C18: every field whose value is an image record and holds a resolved
\* URL, whatever its key, has its picture in the document the builder
\* makes.
C18_ImageRecordsEmbedded ==
    js.pc = "built"
    => \A i \in 1..Len(js.map) :
          (IsImageValue(js.map[i].v) /\ ResolvedUrl(js.map[i].v) # "")
          => \E j \in 1..Len(js.built_map) : js.built_map[j].kind = "image"

-----------------------------------------------------------------------------
(* The asset resolver on its own: one call of PPTXService._download_image  *)
(* (with _convert_to_jpg) or of _download_image_to_tmp, for every answer   *)
(* of the image host.                                                      *)

Resolvers == {"_download_image", "_download_image_to_tmp"}

AssetUrls == {"http://h/a.png", "http://h/b.webp", "http://h/c.jpg", "http://h/d"}

\* a connection error or timeout, or a response: its status, Content-Type
\* and body, and whether writing the body to the local file succeeds
AssetResponses ==
    {Resp("error", 0, "", "", "ok")}
    \cup {Resp("ok", st, ct, body, disk) :
            st \in {200, 404, 500},
            ct \in {"image/png", "image/webp", "image/jpeg", "text/html"},
            body \in {"png", "webp", "jpeg", "garbage"},
            disk \in {"ok", "fail"}}

AssetInit ==
    /\ ast \in [pc : {"call"}, resolver : Resolvers, url : AssetUrls,
                resp : AssetResponses, result : {NoResult}]
    /\ db = Off /\ ex = Off /\ fs = Off /\ sty = Off /\ rnd = Off /\ js = Off

AssetCall ==
    /\ ast.pc = "call"
    /\ ast' = [ast EXCEPT
                 !.pc = "done",
                 !.result = IF ast.resolver = "_download_image"
                            THEN DownloadImage(ast.resp, 1)
                            ELSE DownloadImageToTmp(ast.url, ast.resp, 1)]
    /\ UNCHANGED <<db, ex, fs, sty, rnd, js>>

AssetNext == AssetCall

SpecAsset == AssetInit /\ [][AssetNext]_vars

\* C10: the resolver returns None or the path of a file that holds valid
\* image bytes in a format the document can embed; a network failure, a
\* non-2xx response and a decode failure each yield None.
C10_ResolverReturnsNoneOrImage ==
    ast.pc = "done"
    => \/ ast.result.ret = "none"
       \/ /\ ast.result.ret = "path"
          /\ Embeddable(ast.result.path.body)
          /\ ast.result.path \in ast.result.files

-----------------------------------------------------------------------------
(* One stored content slide through PresentationService.update_slide and   *)
(* then the renderer: db holds the title and the content of the row, rnd   *)
(* the last rendering of it.                                               *)

\* an Optional[str] argument of update_slide: None, or a string
NotGiven == [given |-> FALSE, v |-> <<>>]

Given(v) == [given |-> TRUE, v |-> v]

\* titles the language model gives to a slide in this model
CreatedTitles == {<<"T">>, <<"N">>}

\* the title argument of update_slide: None, the empty string, a title
TitleArgs == {NotGiven, Given(<<>>), Given(<<"T">>)}

\* contents of the row: bullets, free text, NULL
EditContents == {Text(<< <<"-", "a">> >>), Text(<< <<"c">> >>), NoneText}

\* the content argument of update_slide: None, or a text
ContentArgs == {NotGiven} \cup {Given(c) : c \in {Text(<< <<"-", "a">> >>), Text(<< <<"c">> >>)}}

NotRendered ==
    [pc |-> "idle", title |-> <<>>, content |-> NoneText, style |-> Styles[1],
     img |-> "none", out |-> <<>>]

\* the row as create_presentation stored it
EditInit ==
    /\ db \in [title : CreatedTitles, content : EditContents]
    /\ rnd = NotRendered
    /\ ex = Off /\ fs = Off /\ sty = Off /\ js = Off /\ ast = Off

\* update_slide(db, slide_id, title, content): an argument that is not None
\* replaces the column, committed
UpdateSlide ==
    /\ \E title \in TitleArgs, content \in ContentArgs :
          db' = [title   |-> IF title.given THEN title.v ELSE db.title,
                 content |-> IF content.given THEN content.v ELSE db.content]
    /\ UNCHANGED <<ex, fs, sty, rnd, js, ast>>

\* the slide of the row in an exported deck: _create_content_slide with the
\* style the selector chose and the image state the resolver left
ExportSlide ==
    /\ \E style \in StyleSet, img \in ImageStates :
          rnd' = [pc |-> "done", title |-> db.title, content |-> db.content,
                  style |-> style, img |-> img,
                  out |-> CreateContentSlide(db.title, db.content, img, style)]
    /\ UNCHANGED <<db, ex, fs, sty, js, ast>>

EditNext == UpdateSlide \/ ExportSlide

SpecEdit == EditInit /\ [][EditNext]_vars

\* C21: every rendered content slide carries a title text, and the title
\* text is not empty, in each layout and image state, for every row that
\* create_presentation and update_slide can leave in the store.
C21_TitleEmittedNonEmpty ==
    rnd.pc = "done"
    => /\ KindOf(rnd.out, "title") # <<>>
       /\ \A i \in 1..Len(rnd.out) :
             rnd.out[i].kind = "title" => rnd.out[i].text # <<>>

-----------------------------------------------------------------------------
(* generate_presentation (endpoints.py): db counts the committed           *)
(* Presentation rows, js is the request with what its environment does     *)
(* and, once the handler has ended, the response.                          *)

\* what the environment of one request does: the template row, the API key,
\* the call to the language model, its reply, db.commit and db.refresh
GenerateRequests ==
    [pc : {"call"},
     template : {"found", "missing"},
     api_key : {"set", "unset"},
     http : {"ok", "status_error", "timeout"},
     reply : {"json_object", "not_json", "json_list"},
     commit : {"ok", "raises"},
     refresh : {"ok", "raises"},
     status : {0},
     detail : {""}]

GenerateInit ==
    /\ js \in GenerateRequests
    /\ db = [rows |-> 0]
    /\ ex = Off /\ fs = Off /\ sty = Off /\ rnd = Off /\ ast = Off

\* the response of the handler and whether its row was committed
GenerateOutcome(req) ==
    IF req.template = "missing"
    THEN [status |-> 404, detail |-> "Template not found", committed |-> FALSE]
    ELSE IF req.api_key = "unset"
    THEN [status |-> 500, detail |-> "OPENROUTER_API_KEY not set", committed |-> FALSE]
    ELSE IF req.http = "status_error"
    THEN [status |-> 502, detail |-> "OpenRouter error", committed |-> FALSE]
    ELSE IF req.http = "timeout"
    THEN [status |-> 500, detail |-> "Generation failed", committed |-> FALSE]
    ELSE IF req.reply = "not_json"
    THEN [status |-> 502, detail |-> "Invalid JSON from model", committed |-> FALSE]
    ELSE IF req.reply = "json_list"
    THEN [status |-> 500, detail |-> "Generation failed", committed |-> FALSE]
    ELSE IF req.commit = "raises"
    THEN [status |-> 500, detail |-> "Generation failed", committed |-> FALSE]
    ELSE IF req.refresh = "raises"
    THEN [status |-> 500, detail |-> "Generation failed", committed |-> TRUE]
    ELSE [status |-> 200, detail |-> "", committed |-> TRUE]

\* generate_presentation(request, db)
GeneratePresentation ==
    /\ js.pc = "call"
    /\ LET o == GenerateOutcome(js)
       IN /\ js' = [js EXCEPT !.pc = "done", !.status = o.status, !.detail = o.detail]
          /\ db' = [rows |-> IF o.committed THEN db.rows + 1 ELSE db.rows]
    /\ UNCHANGED <<ex, fs, sty, rnd, ast>>

GenerateNext == GeneratePresentation

SpecGenerate == GenerateInit /\ [][GenerateNext]_vars

\* C22: a missing template or a reply that is not JSON ends the request in
\* an error other than the generic generation failure, and whenever the
\* request ends in an error no Presentation row has been added.
C22_ErrorLeavesStoreUnchanged ==
    js.pc = "done"
    => /\ (js.template = "missing"
             \/ (js.api_key = "set" /\ js.http = "ok" /\ js.reply = "not_json"))
          => (js.status \in {404, 502} /\ js.detail # "Generation failed")
       /\ js.status # 200 => db.rows = 0

-----------------------------------------------------------------------------
(* Two endpoints of main.py over a store of two presentations: the reorder *)
(* endpoint and the PPTX download endpoint.  db holds the slide rows with  *)
(* the presentation each belongs to, ex the last request and its response. *)

\* the ids of the stored presentations, and the ids a request can name
PresentationIds == {1, 2}

RequestedIds == PresentationIds \cup {3}

\* Slide.presentation_id of the three slide rows
OwnerOf == <<1, 1, 2>>

EndpointRow(pres, num) == [pres |-> pres, num |-> num]

\* the items of a request body: the id of a row or of none, and a number
BodyItems == [id : 1..(Len(OwnerOf) + 1), slide_number : SlideNumbers]

ReorderBodies == UNION {[1..n -> BodyItems] : n \in 1..2}

NoRequest ==
    [pc |-> "idle", endpoint |-> "none", presentation_id |-> 0, raised |-> "none",
     status |-> 0]

EndpointInit ==
    /\ db = [slides |-> [id \in 1..Len(OwnerOf) |-> EndpointRow(OwnerOf[id], 1 + (id % 2))]]
    /\ ex = NoRequest
    /\ fs = Off /\ sty = Off /\ rnd = Off /\ js = Off /\ ast = Off

\* the try block of both endpoints: whatever is raised inside it, an
\* HTTPException included, is caught by "except Exception" and raised again
\* as HTTPException(500)
HandlerStatus(raised) == IF raised = "none" THEN 200 ELSE 500

\* PATCH /api/presentations/{presentation_id}/reorder: the service is called
\* with the body alone; it returns True after its commit and False after a
\* rollback, and False makes the endpoint raise HTTPException(400)
ReorderRequest ==
    \E presentation_id \in RequestedIds, new_order \in ReorderBodies,
       commit \in {"ok", "raises"} :
       LET success == commit = "ok"
           raised  == IF success THEN "none" ELSE "HTTPException(400)"
       IN /\ db' = IF success
                   THEN [db EXCEPT !.slides = ApplyOrder(db.slides, new_order)]
                   ELSE db
          /\ ex' = [pc |-> "done", endpoint |-> "reorder",
                    presentation_id |-> presentation_id, raised |-> raised,
                    status |-> HandlerStatus(raised)]
          /\ UNCHANGED <<fs, sty, rnd, js, ast>>

\* GET /api/presentations/{presentation_id}/download/pptx: a presentation
\* that get_presentation does not find makes the endpoint raise
\* HTTPException(404); else export_to_pptx returns the path or raises
DownloadRequest ==
    \E presentation_id \in RequestedIds, export \in {"path", "raises"} :
       LET raised == IF presentation_id \notin PresentationIds THEN "HTTPException(404)"
                     ELSE IF export = "raises" THEN "Exception"
                     ELSE "none"
       IN /\ ex' = [pc |-> "done", endpoint |-> "download",
                    presentation_id |-> presentation_id, raised |-> raised,
                    status |-> HandlerStatus(raised)]
          /\ UNCHANGED <<db, fs, sty, rnd, js, ast>>

EndpointNext == ReorderRequest \/ DownloadRequest

SpecEndpoint == EndpointInit /\ [][EndpointNext]_vars

\* C29: a reorder request issued for presentation P changes the
\* slide_number of slides of P only: every slide of every other presentation
\* keeps its slide_number, whatever ids the body names.
C29_ReorderStaysInPresentation ==
    [][ ex'.endpoint = "reorder"
        => \A id \in DOMAIN db.slides :
              db.slides[id].pres # ex'.presentation_id
              => db'.slides[id].num = db.slides[id].num ]_vars

\* C30: a download request for a presentation that does not exist ends in
\* the 404 error and a reorder request that the service reports as failed
\* ends in the 400 error; neither ends in the 500 error.
C30_SpecificErrorReported ==
    /\ ex.raised = "HTTPException(404)" => ex.status = 404
    /\ ex.raised = "HTTPException(400)" => ex.status = 400

====
